---------------------------- MODULE Spec2Model ----------------------------
(***************************************************************************)
(* Model of the chat component of Client/src/components/chat.rs:           *)
(* Chat::create, Chat::update (Msg::HandleMsg, Msg::SubmitMessage) and     *)
(* the message list of Chat::view, together with the serde codecs derived  *)
(* for WebSocketMessage, MsgTypes and MessageData.                         *)
(*                                                                         *)
(* Strings.  A string the program never parses (a user name, the text of   *)
(* a chat message) is the sequence of its characters.  A string the        *)
(* program may hand to serde_json::from_str is a Text: either the text of  *)
(* a JSON object, given by the members the decoders look at, or text that  *)
(* is no JSON document, given by its characters.                           *)
(***************************************************************************)
EXTENDS Integers, Sequences, FiniteSets, TLC

VARIABLES
    phase,       \* "new": before Chat::create; "active"; "panicked": an unwrap failed
    username,    \* user.username of the context (chat.rs:59)
    users,       \* Chat.users
    messages,    \* Chat.messages
    chat_input,  \* value of the <input> element behind Chat.chat_input
    tx,          \* frames queued in wss.tx, not yet taken by the connection
    closed,      \* the receiving half of wss.tx is gone
    sent,        \* history: every frame wss.tx accepted, in order
    outcomes,    \* history: every try_send, its frame and its result, in order
    log,         \* history: the lines written with log::debug!
    delivered,   \* history: every frame handed to update as Msg::HandleMsg
    codec,       \* the envelope codec under test (SpecCodec only)
    relay,       \* the event bus: frames published, and those not yet handled
    ret          \* what the last call of update returned ("none": no call yet)

vars == <<phase, username, users, messages, chat_input, tx, closed, sent,
          outcomes, log, delivered, codec, relay, ret>>

-----------------------------------------------------------------------------
(* Bounds of the model *)

\* longest name list carried by a Users envelope
MaxRoster == 2
\* most calls of update (inbound frames plus submit actions) in a run
MaxEvents == 2
\* capacity of the outbound channel
ChanCap == 1
\* most frames published on the event bus in a run of the relay
MaxPublished == 3

-----------------------------------------------------------------------------
(* Strings *)

Al == <<"a", "l">>
Bo == <<"b", "o">>
Names == {Al, Bo}

Hi == <<"h", "i">>
AGif == <<"a", ".", "g", "i", "f">>
Gif == <<"g", "i", "f">>
MsgTexts == {Hi, AGif, Gif}

NameSeqs == UNION {[1..n -> Names] : n \in 0..MaxRoster}

(* One member of a JSON object (or its absence) whose value is not parsed   *)
(* further: t is the JSON type, s the characters of a string, a the         *)
(* elements of an array of strings.                                         *)
JAbsent == [t |-> "absent", s |-> <<>>, a |-> <<>>]
JNull == [t |-> "null", s |-> <<>>, a |-> <<>>]
JStr(str) == [t |-> "str", s |-> str, a |-> <<>>]
JArr(arr) == [t |-> "arr", s |-> <<>>, a |-> arr]

(* Text that is no JSON document. *)
RawText(chars) ==
    [valid |-> FALSE, chars |-> chars, from |-> JAbsent, message |-> JAbsent]
(* The text of the JSON object with members "from" and "message". *)
DocText(from, message) ==
    [valid |-> TRUE, chars |-> <<>>, from |-> from, message |-> message]
EmptyText == RawText(<<>>)

(* The "data" member of a frame: a JSON string holds a Text. *)
JTAbsent == [t |-> "absent", s |-> EmptyText]
JTNull == [t |-> "null", s |-> EmptyText]
JTStr(text) == [t |-> "str", s |-> text]

(* A frame: the text of a JSON object with members "messageType",          *)
(* "dataArray" and "data", or text that is no JSON document.               *)
Frame(mt, da, d) ==
    [valid |-> TRUE, messageType |-> mt, dataArray |-> da, data |-> d]
BadFrame ==
    [valid |-> FALSE, messageType |-> JAbsent, dataArray |-> JAbsent,
     data |-> JTAbsent]


-----------------------------------------------------------------------------
(* The envelope codec: the serde derives of chat.rs:14-34 *)

MsgTypes == {"Users", "Register", "Message"}

(* The characters of a variant's identifier. *)
VariantIdent(v) ==
    CASE v = "Users" -> <<"U", "s", "e", "r", "s">>
      [] v = "Register" -> <<"R", "e", "g", "i", "s", "t", "e", "r">>
      [] v = "Message" -> <<"M", "e", "s", "s", "a", "g", "e">>

LowerChar(c) ==
    CASE c = "U" -> "u"
      [] c = "R" -> "r"
      [] c = "M" -> "m"
      [] OTHER -> c

(* #[serde(rename_all = "lowercase")] *)
Lowercase(str) == [i \in 1..Len(str) |-> LowerChar(str[i])]

(* The name a variant is read from. *)
VariantName(v) == Lowercase(VariantIdent(v))

(* Option<Vec<String>> and Option<String> *)
NoneVec == [some |-> FALSE, v |-> <<>>]
SomeVec(a) == [some |-> TRUE, v |-> a]
NoneStr == [some |-> FALSE, v |-> EmptyText]
SomeStr(text) == [some |-> TRUE, v |-> text]

WebSocketMessage(mt, da, d) ==
    [message_type |-> mt, data_array |-> da, data |-> d]

\* mutant of SerializeMsgTypes: the variant is written without the rename
SerializeMsgTypesVerbatim(v) == JStr(VariantIdent(v))
(* Serialize for MsgTypes: a unit variant is written as its name. *)
SerializeMsgTypes(v) == JStr(Lowercase(VariantIdent(v)))

(* Serialize for WebSocketMessage, through serde_json::to_string: the      *)
(* three fields under their camelCase names, None written as null.         *)
to_string(m) ==
    Frame(SerializeMsgTypes(m.message_type),
          IF m.data_array.some THEN JArr(m.data_array.v) ELSE JNull,
          IF m.data.some THEN JTStr(m.data.v) ELSE JTNull)

Err == [ok |-> FALSE, msg |-> WebSocketMessage("Users", NoneVec, NoneStr)]
Ok(m) == [ok |-> TRUE, msg |-> m]

(* Deserialize for WebSocketMessage, through serde_json::from_str: the     *)
(* text must be a JSON document, messageType one of the three variant      *)
(* names, and an Option field is None when absent or null.                 *)
from_str(f) ==
    IF ~f.valid THEN Err
    ELSE IF f.messageType.t # "str" THEN Err
    ELSE IF \A v \in MsgTypes : VariantName(v) # f.messageType.s THEN Err
    ELSE IF f.dataArray.t \notin {"absent", "null", "arr"} THEN Err
    ELSE IF f.data.t \notin {"absent", "null", "str"} THEN Err
    ELSE Ok(WebSocketMessage(
             CHOOSE v \in MsgTypes : VariantName(v) = f.messageType.s,
             IF f.dataArray.t = "arr" THEN SomeVec(f.dataArray.a) ELSE NoneVec,
             IF f.data.t = "str" THEN SomeStr(f.data.s) ELSE NoneStr))

MessageData(from, message) == [from |-> from, message |-> message]
ErrData == [ok |-> FALSE, val |-> MessageData(<<>>, <<>>)]

(* Deserialize for MessageData: both fields are required strings. *)
from_str_data(text) ==
    IF ~text.valid THEN ErrData
    ELSE IF text.from.t # "str" \/ text.message.t # "str" THEN ErrData
    ELSE [ok |-> TRUE, val |-> MessageData(text.from.s, text.message.s)]

-----------------------------------------------------------------------------
(* Chat::update, Msg::HandleMsg *)

AvatarPrefix == <<"https://avatars.dicebear.com/api/adventurer-neutral/">>
AvatarSuffix == <<".svg">>

(* format!("https://avatars.dicebear.com/api/adventurer-neutral/{}.svg", u) *)
(* the two literal pieces are each written as one element.                 *)
Avatar(u) == AvatarPrefix \o u \o AvatarSuffix

UserProfile(u) == [name |-> u, avatar |-> Avatar(u)]

\* mutant of UsersArm: an envelope without dataArray leaves the roster as it is
UsersArmKeepOnNone(old_users, data_array) ==
    IF data_array.some
    THEN [i \in 1..Len(data_array.v) |-> UserProfile(data_array.v[i])]
    ELSE old_users
\* mutant of UsersArm: the new names are added to the roster
UsersArmMerge(old_users, data_array) ==
    old_users \o
    [i \in 1..Len(IF data_array.some THEN data_array.v ELSE <<>>) |->
        UserProfile((IF data_array.some THEN data_array.v ELSE <<>>)[i])]
(* The MsgTypes::Users arm: the new value of self.users. *)
UsersArm(old_users, data_array) ==
    LET users_from_message == IF data_array.some THEN data_array.v ELSE <<>>
    IN  [i \in 1..Len(users_from_message) |->
            UserProfile(users_from_message[i])]

\* mutant of MessageArm: a message equal to the newest entry is not pushed
MessageArmDedup(old_messages, data) ==
    IF ~data.some THEN [panic |-> TRUE, messages |-> old_messages]
    ELSE LET message_data == from_str_data(data.v)
         IN  IF ~message_data.ok
             THEN [panic |-> TRUE, messages |-> old_messages]
             ELSE IF /\ old_messages # << >>
                     /\ old_messages[Len(old_messages)] = message_data.val
             THEN [panic |-> FALSE, messages |-> old_messages]
             ELSE [panic |-> FALSE,
                   messages |-> Append(old_messages, message_data.val)]
\* mutant of MessageArm: the message is put in front of the timeline
MessageArmPrepend(old_messages, data) ==
    IF ~data.some THEN [panic |-> TRUE, messages |-> old_messages]
    ELSE LET message_data == from_str_data(data.v)
         IN  IF ~message_data.ok
             THEN [panic |-> TRUE, messages |-> old_messages]
             ELSE [panic |-> FALSE,
                   messages |-> <<message_data.val>> \o old_messages]
\* mutant of MessageArm: a payload that does not decode is skipped
MessageArmSkipBad(old_messages, data) ==
    IF ~data.some THEN [panic |-> FALSE, messages |-> old_messages]
    ELSE LET message_data == from_str_data(data.v)
         IN  IF ~message_data.ok
             THEN [panic |-> FALSE, messages |-> old_messages]
             ELSE [panic |-> FALSE,
                   messages |-> Append(old_messages, message_data.val)]
(* The MsgTypes::Message arm: both unwraps, then the push. *)
MessageArm(old_messages, data) ==
    IF ~data.some THEN [panic |-> TRUE, messages |-> old_messages]
    ELSE LET message_data == from_str_data(data.v)
         IN  IF ~message_data.ok
             THEN [panic |-> TRUE, messages |-> old_messages]
             ELSE [panic |-> FALSE,
                   messages |-> Append(old_messages, message_data.val)]

\* mutant of HandleMsg: an inbound Register adds the name to the roster
HandleMsgRegisterJoins(old_users, old_messages, s) ==
    LET msg == from_str(s)
        same == [panic |-> FALSE, users |-> old_users,
                 messages |-> old_messages, ret |-> FALSE]
    IN  IF ~msg.ok THEN [same EXCEPT !.panic = TRUE]
        ELSE CASE msg.msg.message_type = "Users" ->
                    [same EXCEPT !.users = UsersArm(old_users, msg.msg.data_array),
                                 !.ret = TRUE]
               [] msg.msg.message_type = "Message" ->
                    LET r == MessageArm(old_messages, msg.msg.data)
                    IN  IF r.panic THEN [same EXCEPT !.panic = TRUE]
                        ELSE [same EXCEPT !.messages = r.messages, !.ret = TRUE]
               [] OTHER ->
                    IF msg.msg.data.some
                    THEN [same EXCEPT !.users =
                            Append(old_users, UserProfile(msg.msg.data.v.chars))]
                    ELSE same
\* mutant of HandleMsg: true is returned only when the roster or timeline changed
HandleMsgRenderOnChange(old_users, old_messages, s) ==
    LET msg == from_str(s)
        same == [panic |-> FALSE, users |-> old_users,
                 messages |-> old_messages, ret |-> FALSE]
    IN  IF ~msg.ok THEN [same EXCEPT !.panic = TRUE]
        ELSE CASE msg.msg.message_type = "Users" ->
                    [same EXCEPT !.users = UsersArm(old_users, msg.msg.data_array),
                                 !.ret = UsersArm(old_users, msg.msg.data_array)
                                            # old_users]
               [] msg.msg.message_type = "Message" ->
                    LET r == MessageArm(old_messages, msg.msg.data)
                    IN  IF r.panic THEN [same EXCEPT !.panic = TRUE]
                        ELSE [same EXCEPT !.messages = r.messages, !.ret = TRUE]
               [] OTHER -> same
\* mutant of HandleMsg: a Users envelope also empties the timeline
HandleMsgUsersResetsTimeline(old_users, old_messages, s) ==
    LET msg == from_str(s)
        same == [panic |-> FALSE, users |-> old_users,
                 messages |-> old_messages, ret |-> FALSE]
    IN  IF ~msg.ok THEN [same EXCEPT !.panic = TRUE]
        ELSE CASE msg.msg.message_type = "Users" ->
                    [same EXCEPT !.users = UsersArm(old_users, msg.msg.data_array),
                                 !.messages = << >>,
                                 !.ret = TRUE]
               [] msg.msg.message_type = "Message" ->
                    LET r == MessageArm(old_messages, msg.msg.data)
                    IN  IF r.panic THEN [same EXCEPT !.panic = TRUE]
                        ELSE [same EXCEPT !.messages = r.messages, !.ret = TRUE]
               [] OTHER -> same
(* Msg::HandleMsg(s): what update leaves in users and messages, whether it *)
(* panicked, and the value it returned.                                    *)
HandleMsg(old_users, old_messages, s) ==
    LET msg == from_str(s)
        same == [panic |-> FALSE, users |-> old_users,
                 messages |-> old_messages, ret |-> FALSE]
    IN  IF ~msg.ok THEN [same EXCEPT !.panic = TRUE]
        ELSE CASE msg.msg.message_type = "Users" ->
                    [same EXCEPT !.users = UsersArm(old_users, msg.msg.data_array),
                                 !.ret = TRUE]
               [] msg.msg.message_type = "Message" ->
                    LET r == MessageArm(old_messages, msg.msg.data)
                    IN  IF r.panic THEN [same EXCEPT !.panic = TRUE]
                        ELSE [same EXCEPT !.messages = r.messages, !.ret = TRUE]
               [] OTHER -> same

-----------------------------------------------------------------------------
(* The outbound channel wss.tx *)

(* try_send on the channel: the frame is queued unless the channel is      *)
(* closed or holds ChanCap frames already.                                 *)
try_send(queue, is_closed, frame) ==
    IF is_closed THEN [res |-> "closed", queue |-> queue]
    ELSE IF Len(queue) >= ChanCap THEN [res |-> "full", queue |-> queue]
    ELSE [res |-> "ok", queue |-> Append(queue, frame)]

-----------------------------------------------------------------------------
(* Chat::view, the message list (chat.rs:168-189) *)

DotGif == <<".", "g", "i", "f">>

\* mutant of ends_with: the first character of the suffix is not compared
ends_with_tail(str, suffix) ==
    /\ Len(str) >= Len(suffix) - 1
    /\ SubSeq(str, Len(str) - Len(suffix) + 2, Len(str)) = Tail(suffix)
(* str::ends_with *)
ends_with(str, suffix) ==
    /\ Len(str) >= Len(suffix)
    /\ SubSeq(str, Len(str) - Len(suffix) + 1, Len(str)) = suffix

\* mutant of find: the first profile looked at is skipped
find_after_first(profiles, from, i) ==
    IF \E j \in (i + 1)..Len(profiles) : profiles[j].name = from
    THEN CHOOSE j \in (i + 1)..Len(profiles) :
            /\ profiles[j].name = from
            /\ \A h \in (i + 1)..(j - 1) : profiles[h].name # from
    ELSE 0
(* self.users.iter().find(|u| u.name == m.from): the index of the first    *)
(* profile of that name, 0 when there is none.                             *)
RECURSIVE find(_, _, _)
find(profiles, from, i) ==
    IF i > Len(profiles) THEN 0
    ELSE IF profiles[i].name = from THEN i
    ELSE find(profiles, from, i + 1)

\* mutant of ViewMessage: an entry without a profile is shown without avatar
ViewMessagePlaceholder(profiles, m) ==
    LET user == find(profiles, m.from, 1)
    IN  << [avatar |-> IF user # 0 THEN profiles[user].avatar ELSE << >>,
            from |-> m.from,
            tag |-> IF ends_with(m.message, DotGif) THEN "img" ELSE "p",
            body |-> m.message] >>
(* What one timeline entry contributes to the rendered list: one node, or  *)
(* nothing (html! {}).                                                     *)
ViewMessage(profiles, m) ==
    LET user == find(profiles, m.from, 1)
    IN  IF user # 0
        THEN << [avatar |-> profiles[user].avatar,
                 from |-> m.from,
                 tag |-> IF ends_with(m.message, DotGif) THEN "img" ELSE "p",
                 body |-> m.message] >>
        ELSE << >>

(* self.messages.iter().map(..).collect::<Html>() *)
RECURSIVE ViewMessages(_, _)
ViewMessages(profiles, timeline) ==
    IF timeline = << >> THEN << >>
    ELSE ViewMessage(profiles, Head(timeline))
            \o ViewMessages(profiles, Tail(timeline))

View == ViewMessages(users, messages)

-----------------------------------------------------------------------------
(* Inputs *)

UsersFrame(da) == Frame(JStr(VariantName("Users")), da, JTAbsent)
MessageFrame(d) == Frame(JStr(VariantName("Message")), JAbsent, d)
RegisterFrame(d) == Frame(JStr(VariantName("Register")), JAbsent, d)

ChatText(from, message) == DocText(JStr(from), JStr(message))

Typing == <<"t", "y", "p", "i", "n", "g">>

(* Frames the server may send that update handles without panicking. *)
GoodFrames ==
    {UsersFrame(JArr(L)) : L \in NameSeqs}
        \cup {UsersFrame(JAbsent)}
        \cup {MessageFrame(JTStr(ChatText(n, t))) : n \in Names, t \in MsgTexts}
        \cup {RegisterFrame(JTStr(RawText(Al))), RegisterFrame(JTAbsent)}

(* Frames on which an unwrap of update fails. *)
PanicFrames ==
    { BadFrame,
      Frame(JStr(Typing), JAbsent, JTAbsent),
      MessageFrame(JTAbsent),
      MessageFrame(JTStr(RawText(Hi))),
      MessageFrame(JTStr(DocText(JAbsent, JStr(Hi)))) }

InboundFrames == GoodFrames \cup PanicFrames

(* What the user may type into the input element. *)
InputTexts == {EmptyText, RawText(Hi), ChatText(Al, Hi)}

-----------------------------------------------------------------------------
(* The state machine *)

(* No frame published yet. *)
RelayIdle == [published |-> << >>, pending |-> << >>]

CodecIdle ==
    [stage |-> "idle", e |-> WebSocketMessage("Users", NoneVec, NoneStr),
     text |-> BadFrame, back |-> Err]

Init ==
    /\ phase = "new"
    /\ username \in Names
    /\ users = << >>
    /\ messages = << >>
    /\ chat_input = EmptyText
    /\ tx = << >>
    /\ closed \in BOOLEAN
    /\ sent = << >>
    /\ outcomes = << >>
    /\ log = << >>
    /\ delivered = << >>
    /\ codec = CodecIdle
    /\ relay = RelayIdle
    /\ ret = "none"

(* Calls of update so far: one per frame delivered and one per submit      *)
(* (every try_send but the one of create).                                 *)
Events == Len(delivered) + (IF outcomes = << >> THEN 0 ELSE Len(outcomes) - 1)

\* mutant of RegisterMessage: the handshake carries no name
RegisterMessageNoData(name) ==
    WebSocketMessage("Register", NoneVec, NoneStr)
(* The envelope create builds, chat.rs:61-65 *)
RegisterMessage(name) ==
    WebSocketMessage("Register", NoneVec, SomeStr(RawText(name)))

(* Chat::create, chat.rs:53-82 *)
Create ==
    /\ phase = "new"
    /\ LET message == RegisterMessage(username)
           frame == to_string(message)
           r == try_send(tx, closed, frame)
       IN  /\ tx' = r.queue
           /\ sent' = IF r.res = "ok" THEN Append(sent, frame) ELSE sent
           /\ outcomes' = Append(outcomes, [res |-> r.res, frame |-> frame])
           /\ log' = IF r.res = "ok"
                     THEN Append(log, "message sent successfully")
                     ELSE log
    /\ users' = << >>
    /\ messages' = << >>
    /\ phase' = "active"
    /\ UNCHANGED <<username, chat_input, closed, delivered, codec, relay, ret>>

(* Chat::update with Msg::HandleMsg(s), chat.rs:86-114; a call that panics *)
(* returns nothing.                                                        *)
HandleStep(s) ==
    /\ phase = "active"
    /\ LET r == HandleMsg(users, messages, s)
       IN  /\ users' = r.users
           /\ messages' = r.messages
           /\ phase' = IF r.panic THEN "panicked" ELSE "active"
           /\ ret' = IF r.panic THEN ret ELSE IF r.ret THEN "true" ELSE "false"
    /\ delivered' = Append(delivered, s)
    /\ UNCHANGED <<username, chat_input, tx, closed, sent, outcomes, log, codec>>

(* A frame arrives and update handles it at once. *)
Handle(s) ==
    /\ Events < MaxEvents
    /\ HandleStep(s)
    /\ relay' = [relay EXCEPT !.published = Append(@, s)]

\* mutant of InputAfterSubmit: the input is cleared only when the send succeeded
InputAfterSubmitOnSuccess(old_input, res) ==
    IF res = "ok" THEN EmptyText ELSE old_input
(* What Msg::SubmitMessage leaves in the input element, given the result   *)
(* of try_send: input.set_value("") follows the if let.                    *)
InputAfterSubmit(old_input, res) == EmptyText

\* mutant of SubmitMessage: the text is wrapped as the message of a ChatMessage
SubmitMessageWrapped(input) ==
    WebSocketMessage("Message", NoneVec,
                     SomeStr(DocText(JStr(Al), JStr(input.chars))))
(* The envelope a submit builds from input.value(), chat.rs:119-123 *)
SubmitMessage(input) ==
    WebSocketMessage("Message", NoneVec, SomeStr(input))

(* Chat::update with Msg::SubmitMessage, chat.rs:115-135.  The message is  *)
(* produced by the button of view only, so the input element of the same   *)
(* view is there and chat_input.cast() is Some.                            *)
Submit ==
    /\ phase = "active"
    /\ Events < MaxEvents
    /\ LET message == SubmitMessage(chat_input)
           frame == to_string(message)
           r == try_send(tx, closed, frame)
       IN  /\ tx' = r.queue
           /\ sent' = IF r.res = "ok" THEN Append(sent, frame) ELSE sent
           /\ outcomes' = Append(outcomes, [res |-> r.res, frame |-> frame])
           /\ log' = IF r.res # "ok"
                     THEN Append(log, "error sending to channel")
                     ELSE log
           /\ chat_input' = InputAfterSubmit(chat_input, r.res)
    /\ ret' = "false"
    /\ UNCHANGED <<phase, username, users, messages, closed, delivered, codec,
                   relay>>

(* The user edits the input element. *)
TypeInput(t) ==
    /\ phase = "active"
    /\ t # chat_input
    /\ chat_input' = t
    /\ UNCHANGED <<phase, username, users, messages, tx, closed, sent,
                   outcomes, log, delivered, codec, relay, ret>>

(* The connection takes the oldest queued frame and writes it to the socket. *)
TransportTake ==
    /\ phase # "new"
    /\ ~closed
    /\ tx # << >>
    /\ tx' = Tail(tx)
    /\ UNCHANGED <<phase, username, users, messages, chat_input, closed, sent,
                   outcomes, log, delivered, codec, relay, ret>>

(* The connection ends: the receiving half of the channel is dropped. *)
ConnectionClose ==
    /\ phase # "new"
    /\ ~closed
    /\ closed' = TRUE
    /\ tx' = << >>
    /\ UNCHANGED <<phase, username, users, messages, chat_input, sent,
                   outcomes, log, delivered, codec, relay, ret>>

Next ==
    \/ Create
    \/ \E s \in InboundFrames : Handle(s)
    \/ Submit
    \/ \E t \in InputTexts : TypeInput(t)
    \/ TransportTake
    \/ ConnectionClose

Spec == Init /\ [][Next]_vars

-----------------------------------------------------------------------------
(* The codec on its own: every envelope is encoded, then decoded. *)

Envelopes ==
    {WebSocketMessage(mt, da, d) :
        mt \in MsgTypes,
        da \in {NoneVec} \cup {SomeVec(L) : L \in NameSeqs},
        d \in {NoneStr} \cup {SomeStr(t) : t \in InputTexts \cup {RawText(Al)}}}

InitCodec ==
    /\ phase = "new"
    /\ username = Al
    /\ users = << >>
    /\ messages = << >>
    /\ chat_input = EmptyText
    /\ tx = << >>
    /\ closed = FALSE
    /\ sent = << >>
    /\ outcomes = << >>
    /\ log = << >>
    /\ delivered = << >>
    /\ relay = RelayIdle
    /\ ret = "none"
    /\ codec \in {[CodecIdle EXCEPT !.stage = "input", !.e = e] : e \in Envelopes}

CodecEncode ==
    /\ codec.stage = "input"
    /\ codec' = [codec EXCEPT !.stage = "encoded", !.text = to_string(codec.e)]
    /\ UNCHANGED <<phase, username, users, messages, chat_input, tx, closed,
                   sent, outcomes, log, delivered, relay, ret>>

CodecDecode ==
    /\ codec.stage = "encoded"
    /\ codec' = [codec EXCEPT !.stage = "decoded", !.back = from_str(codec.text)]
    /\ UNCHANGED <<phase, username, users, messages, chat_input, tx, closed,
                   sent, outcomes, log, delivered, relay, ret>>

NextCodec == CodecEncode \/ CodecDecode

SpecCodec == InitCodec /\ [][NextCodec]_vars

-----------------------------------------------------------------------------
(* Vocabulary of the properties, stated on the frames themselves *)

Last(seq) == seq[Len(seq)]

IsPrefix(a, b) == Len(a) <= Len(b) /\ SubSeq(b, 1, Len(a)) = a

KindIs(f, name) == f.valid /\ f.messageType.t = "str" /\ f.messageType.s = name

UsersKind == <<"u", "s", "e", "r", "s">>
RegisterKind == <<"r", "e", "g", "i", "s", "t", "e", "r">>
MessageKind == <<"m", "e", "s", "s", "a", "g", "e">>

(* A Users envelope that carries a name list. *)
CarriesList(f) == KindIs(f, UsersKind) /\ f.dataArray.t = "arr"

(* A Message envelope whose data is the text of a ChatMessage. *)
WellFormedMessage(f) ==
    /\ KindIs(f, MessageKind)
    /\ f.data.t = "str"
    /\ f.data.s.valid
    /\ f.data.s.from.t = "str"
    /\ f.data.s.message.t = "str"

ChatMessageOf(f) == [from |-> f.data.s.from.s, message |-> f.data.s.message.s]

RECURSIVE DecodedMessages(_)
DecodedMessages(frames) ==
    IF frames = << >> THEN << >>
    ELSE (IF WellFormedMessage(Head(frames))
          THEN <<ChatMessageOf(Head(frames))>> ELSE << >>)
            \o DecodedMessages(Tail(frames))

InRoster(name) == \E j \in DOMAIN users : users[j].name = name

HasGifSuffix(str) ==
    /\ Len(str) >= 4
    /\ str[Len(str) - 3] = "."
    /\ str[Len(str) - 2] = "g"
    /\ str[Len(str) - 1] = "i"
    /\ str[Len(str)] = "f"

-----------------------------------------------------------------------------
(* Properties *)

(* C1: whenever the frame update handled last is a Users envelope carrying *)
(* the name list L, the roster has exactly Len(L) entries, entry i has     *)
(* name L[i] and the avatar the template gives for L[i]: the roster is     *)
(* replaced, not merged and not deduplicated.                              *)
C1_RosterReplaced ==
    (phase = "active" /\ delivered # << >> /\ CarriesList(Last(delivered))) =>
        LET L == Last(delivered).dataArray.a
        IN  /\ Len(users) = Len(L)
            /\ \A i \in 1..Len(L) :
                  /\ users[i].name = L[i]
                  /\ users[i].avatar = Avatar(L[i])

(* a roster of two names is replaced by a list naming one of them twice *)
C1_Witness ==
    /\ Len(delivered) = 2
    /\ delivered[1] = UsersFrame(JArr(<<Al, Bo>>))
    /\ delivered[2] = UsersFrame(JArr(<<Bo, Bo>>))
    /\ users = <<UserProfile(Bo), UserProfile(Bo)>>

(* C2: once the core is constructed, the timeline is exactly the sequence  *)
(* of ChatMessages of the well-formed Message envelopes handled so far, in *)
(* the order they were handled: none dropped, reordered or deduplicated.   *)
C2_TimelineIsDecodedMessages ==
    phase # "new" => messages = DecodedMessages(delivered)

(* the same message was received twice and is twice in the timeline *)
C2_Witness ==
    /\ Len(delivered) = 2
    /\ WellFormedMessage(delivered[1])
    /\ delivered[1] = delivered[2]
    /\ Len(messages) = 2

(* C3: in every step the timeline before is a prefix of the timeline after. *)
C3_TimelinePrefix == [][IsPrefix(messages, messages')]_vars

(* a message, then a roster without its sender: the entry is still there *)
C3_Witness ==
    /\ Len(delivered) = 2
    /\ delivered[1] = MessageFrame(JTStr(ChatText(Bo, Hi)))
    /\ delivered[2] = UsersFrame(JArr(<<Al>>))
    /\ messages = <<MessageData(Bo, Hi)>>

(* C4: once the core is constructed, the first envelope handed to the      *)
(* outbound channel is the Register envelope whose data is the session     *)
(* username; whatever the channel accepted, it accepted that envelope      *)
(* first, and an open channel has accepted it: no Message envelope is sent *)
(* before it.                                                              *)
C4_RegisterFirst ==
    phase # "new" =>
        /\ KindIs(outcomes[1].frame, RegisterKind)
        /\ outcomes[1].frame.data = JTStr(RawText(username))
        /\ sent # << >> => sent[1] = outcomes[1].frame
        /\ ~closed => sent # << >>

(* a Message envelope was sent after the handshake *)
C4_Witness ==
    /\ Len(sent) = 2
    /\ KindIs(sent[2], MessageKind)
    /\ sent[2].data = JTStr(RawText(Hi))

(* C5: every submit action leaves the input element empty, whatever        *)
(* try_send returned.                                                      *)
C5_InputCleared ==
    [][(phase = "active" /\ outcomes' # outcomes) => chat_input' = EmptyText]_vars

(* a typed text was submitted while the channel was full: dropped, cleared *)
C5_Witness ==
    /\ Len(outcomes) = 2
    /\ outcomes[2].res = "full"
    /\ outcomes[2].frame.data = JTStr(RawText(Hi))
    /\ chat_input = EmptyText
    /\ Len(sent) = 1

(* C6: in every state a timeline entry contributes a node to the rendered  *)
(* view exactly when the roster holds a profile whose name equals its from *)
(* field, so the view has one node per such entry; and a step that appends *)
(* an entry whose sender is not in the roster leaves the view as it was.   *)
C6_VisibleIffInRoster ==
    /\ [](/\ \A i \in DOMAIN messages :
                ViewMessage(users, messages[i]) # << >>
                    <=> InRoster(messages[i].from)
          /\ Len(View) =
                Cardinality({i \in DOMAIN messages : InRoster(messages[i].from)}))
    /\ [][(/\ delivered' # delivered
           /\ WellFormedMessage(Last(delivered'))
           /\ ~InRoster(ChatMessageOf(Last(delivered')).from))
            => (/\ messages' = Append(messages, ChatMessageOf(Last(delivered')))
                /\ View' = View)]_vars

(* the roster names al only; the entry of bo is kept and not rendered *)
C6_Witness ==
    /\ Len(users) = 1
    /\ users[1].name = Al
    /\ messages = <<MessageData(Bo, Hi)>>
    /\ View = << >>

(* C7: a rendered entry is an image exactly when its message text ends     *)
(* with ".gif", and a paragraph otherwise, whoever sent it and whatever    *)
(* the roster and the earlier entries are.                                 *)
C7_MediaIffGifSuffix ==
    \A i \in DOMAIN messages :
        \A k \in DOMAIN ViewMessage(users, messages[i]) :
            LET node == ViewMessage(users, messages[i])[k]
            IN  /\ node.tag = (IF HasGifSuffix(messages[i].message)
                               THEN "img" ELSE "p")
                /\ node.body = messages[i].message

(* "a.gif" of a roster member is rendered as an image *)
C7_Witness ==
    /\ Len(View) = 1
    /\ View[1].tag = "img"
    /\ View[1].body = AGif

(* C8: decoding the encoded text of an envelope gives the envelope back,   *)
(* for every kind, with data and dataArray each present or absent.         *)
C8_RoundTrip ==
    codec.stage = "decoded" => (codec.back.ok /\ codec.back.msg = codec.e)

(* a Register envelope with a name list and without data made the trip *)
C8_Witness ==
    /\ codec.stage = "decoded"
    /\ codec.e = WebSocketMessage("Register", SomeVec(<<Bo, Al>>), NoneStr)
    /\ codec.text.data.t = "null"

(* C9, as the specification states it: handling a frame whose kind is none *)
(* of users, register and message raises no error and changes neither the  *)
(* roster nor the timeline.                                                *)
C9_UnknownKindIgnored ==
    [][(/\ delivered' # delivered
        /\ Last(delivered').valid
        /\ Last(delivered').messageType.t = "str"
        /\ Last(delivered').messageType.s
                \notin {UsersKind, RegisterKind, MessageKind})
        => (phase' = "active" /\ users' = users /\ messages' = messages)]_vars

(* A frame that is no JSON document, or a Message envelope whose data is   *)
(* absent, null or not the text of a ChatMessage.                          *)
FailsToDecode(f) ==
    \/ ~f.valid
    \/ KindIs(f, MessageKind) /\ ~WellFormedMessage(f)

(* C10: a frame that fails to decode stops the core: the step that handles *)
(* it changes neither roster nor timeline, and from then on no frame is    *)
(* handled and roster and timeline stay as they are.                       *)
C10_DecodeFailureFatal ==
    [][/\ (delivered' # delivered /\ FailsToDecode(Last(delivered')))
            => (phase' = "panicked" /\ users' = users /\ messages' = messages)
       /\ phase = "panicked"
            => (/\ phase' = "panicked"
                /\ delivered' = delivered
                /\ users' = users
                /\ messages' = messages)]_vars

(* a Message envelope with an undecodable payload arrived after a message, *)
(* and the connection took the queued frame after the panic                *)
C10_Witness ==
    /\ phase = "panicked"
    /\ Len(delivered) = 2
    /\ delivered[2] = MessageFrame(JTStr(RawText(Hi)))
    /\ Len(messages) = 1
    /\ sent # << >>
    /\ tx = << >>
    /\ ~closed

-----------------------------------------------------------------------------
(* A text that from_str reads as a MessageData. *)
IsChatMessageText(text) ==
    text.valid /\ text.from.t = "str" /\ text.message.t = "str"

(* The inbound frames update applied: all delivered ones but a last one    *)
(* that made update panic.                                                 *)
AppliedCount == IF phase = "panicked" THEN Len(delivered) - 1 ELSE Len(delivered)

(* C11 as the specification states it: every Message envelope the core     *)
(* handed to the outbound channel on a submit carries a data string that   *)
(* decodes to a ChatMessage {from, message}.                               *)
C11_EveryMessageEnvelopeDecodes ==
    \A i \in DOMAIN outcomes :
        KindIs(outcomes[i].frame, MessageKind)
            => WellFormedMessage(outcomes[i].frame)

(* C11, amended: every inbound Message envelope update applied carries a   *)
(* data string that decodes to a ChatMessage; the Message envelope of a    *)
(* submit carries the text of the input element as it is, with no          *)
(* dataArray, so its data decodes to a ChatMessage exactly when the text   *)
(* typed is itself a serialized ChatMessage.                               *)
C11_SubmitSendsInputVerbatim ==
    /\ [](\A i \in 1..AppliedCount :
            KindIs(delivered[i], MessageKind) => WellFormedMessage(delivered[i]))
    /\ [][(phase = "active" /\ outcomes' # outcomes) =>
            LET f == Last(outcomes').frame
            IN  /\ KindIs(f, MessageKind)
                /\ f.dataArray = JNull
                /\ f.data = JTStr(chat_input)
                /\ WellFormedMessage(f) <=> IsChatMessageText(chat_input)]_vars

(* the text hi was submitted and accepted by the channel as the data of a  *)
(* Message envelope that does not decode to a ChatMessage, and an inbound  *)
(* Message envelope was applied                                            *)
C11_Witness ==
    /\ \E i \in DOMAIN sent :
          /\ KindIs(sent[i], MessageKind)
          /\ sent[i].data = JTStr(RawText(Hi))
          /\ ~WellFormedMessage(sent[i])
    /\ phase = "active"
    /\ messages # << >>

(* C12: handling an inbound Register envelope changes neither the roster   *)
(* nor the timeline and raises no error, whatever data it carries and      *)
(* whatever the state before.                                              *)
C12_RegisterIsNoOp ==
    [][(delivered' # delivered /\ KindIs(Last(delivered'), RegisterKind)) =>
            /\ users' = users
            /\ messages' = messages
            /\ phase' = "active"]_vars

(* a Register envelope carrying a name was handled after a roster was set  *)
C12_Witness ==
    /\ Len(delivered) = 2
    /\ delivered[2] = RegisterFrame(JTStr(RawText(Al)))
    /\ users # << >>
    /\ phase = "active"

-----------------------------------------------------------------------------
(* The event bus between the connection and the component: the connection  *)
(* publishes each frame it receives, and the bridge of create hands every  *)
(* published frame to update as Msg::HandleMsg, one call at a time.        *)

(* Frames published in the runs of the relay. *)
RelayFrames ==
    { UsersFrame(JArr(<<Al>>)), UsersFrame(JArr(<<Bo>>)),
      MessageFrame(JTStr(ChatText(Al, Hi))),
      MessageFrame(JTStr(ChatText(Bo, Hi))),
      BadFrame }

\* mutant of TakePending: the newest pending frame is handed over first
TakeNewest(pending) ==
    [frame |-> pending[Len(pending)],
     rest |-> SubSeq(pending, 1, Len(pending) - 1)]
(* The frame the bus hands to its subscriber next: the oldest pending one. *)
TakePending(pending) == [frame |-> Head(pending), rest |-> Tail(pending)]

(* The connection received a frame and publishes it. *)
Publish(s) ==
    /\ phase # "new"
    /\ Len(relay.published) < MaxPublished
    /\ relay' = [published |-> Append(relay.published, s),
                 pending |-> Append(relay.pending, s)]
    /\ UNCHANGED <<phase, username, users, messages, chat_input, tx, closed,
                   sent, outcomes, log, delivered, codec, ret>>

(* The bus calls the callback of the bridge: update handles the frame. *)
Deliver ==
    /\ relay.pending # << >>
    /\ HandleStep(TakePending(relay.pending).frame)
    /\ relay' = [relay EXCEPT !.pending = TakePending(relay.pending).rest]

NextRelay ==
    \/ Create
    \/ \E s \in RelayFrames : Publish(s)
    \/ Deliver
    \/ Submit

SpecRelay == Init /\ [][NextRelay]_vars

(* The frames of a sequence applied one after the other, from the empty    *)
(* roster and timeline; nothing is applied after a panic.                  *)
RECURSIVE ApplyInOrder(_, _)
ApplyInOrder(state, frames) ==
    IF frames = << >> \/ state.panic THEN state
    ELSE ApplyInOrder(HandleMsg(state.users, state.messages, Head(frames)),
                      Tail(frames))

Constructed == [panic |-> FALSE, users |-> << >>, messages |-> << >>, ret |-> FALSE]

(* C13: the frames update has handled are, in order, the first frames the  *)
(* connection published, none dropped or repeated; roster and timeline are *)
(* what applying these frames one after the other from the constructed     *)
(* state gives; and no step handles two frames, or a frame and a submit.   *)
C13_AppliedInArrivalOrder ==
    /\ [](/\ relay.published = delivered \o relay.pending
          /\ phase # "new" =>
                LET r == ApplyInOrder(Constructed,
                                      SubSeq(relay.published, 1, Len(delivered)))
                IN  /\ users = r.users
                    /\ messages = r.messages
                    /\ (phase = "panicked") = r.panic)
    /\ [][/\ Len(delivered') <= Len(delivered) + 1
          /\ ~(delivered' # delivered /\ outcomes' # outcomes)]_vars

(* two Users envelopes were handled in the order published, a submit       *)
(* between them, a third frame still pending: the roster is the later one  *)
C13_Witness ==
    /\ delivered = <<UsersFrame(JArr(<<Al>>)), UsersFrame(JArr(<<Bo>>))>>
    /\ relay.pending = <<MessageFrame(JTStr(ChatText(Bo, Hi)))>>
    /\ Len(outcomes) = 2
    /\ users = <<UserProfile(Bo)>>

-----------------------------------------------------------------------------
(* C14 as the specification states it: whenever try_send fails, at         *)
(* construction or on a submit, a log entry reports it, the envelope is    *)
(* dropped (the channel holds what it held, nothing is sent again in the   *)
(* step), and roster and timeline are unchanged.                           *)
C14_FailedSendLogged ==
    [][(outcomes' # outcomes /\ Last(outcomes').res # "ok") =>
            /\ Len(log') = Len(log) + 1
            /\ tx' = tx
            /\ sent' = sent
            /\ Len(outcomes') = Len(outcomes) + 1
            /\ users' = users
            /\ messages' = messages]_vars

-----------------------------------------------------------------------------
(* The names of the roster when the k-th delivered frame was received:     *)
(* those of the last Users envelope handled before it, none if there was   *)
(* no such envelope.                                                       *)
NamesAt(k) ==
    LET before == {j \in 1..(k - 1) : KindIs(delivered[j], UsersKind)}
    IN  IF before = {} THEN << >>
        ELSE LET j == CHOOSE x \in before : \A y \in before : y <= x
             IN  IF delivered[j].dataArray.t = "arr"
                 THEN delivered[j].dataArray.a ELSE << >>

(* The k-th delivered frame is a Message envelope that was applied while   *)
(* the roster held no profile of its sender.                               *)
AbsentAtReceipt(k) ==
    /\ WellFormedMessage(delivered[k])
    /\ \A n \in DOMAIN NamesAt(k) :
            NamesAt(k)[n] # ChatMessageOf(delivered[k]).from

(* The timeline entry the k-th delivered frame was appended as. *)
EntryOf(k) == Len(DecodedMessages(SubSeq(delivered, 1, k)))

(* What that entry contributes to the view of a roster. *)
Rendered(profiles, timeline, k) == ViewMessage(profiles, timeline[EntryOf(k)])

(* C15 as the specification states it: an entry whose sender was absent    *)
(* from the roster when it was received is invisible in every later state. *)
C15_AbsentSenderStaysInvisible ==
    \A k \in DOMAIN delivered :
        AbsentAtReceipt(k) => Rendered(users, messages, k) = << >>

(* C15, amended: an entry whose sender was absent from the roster when it  *)
(* was received is invisible exactly in the states whose roster holds no   *)
(* profile of that name; it stays invisible through every step but the     *)
(* handling of a Users envelope, and a Users envelope that names the       *)
(* sender makes it visible.                                                *)
C15_InvisibleWhileSenderAbsent ==
    /\ [](\A k \in DOMAIN delivered :
            AbsentAtReceipt(k) =>
                (Rendered(users, messages, k) = << >>
                    <=> ~InRoster(ChatMessageOf(delivered[k]).from)))
    /\ [][\A k \in DOMAIN delivered :
            (AbsentAtReceipt(k) /\ Rendered(users, messages, k) = << >>) =>
                IF delivered' # delivered /\ CarriesList(Last(delivered'))
                THEN Rendered(users', messages', k) # << >>
                        <=> \E n \in DOMAIN Last(delivered').dataArray.a :
                                Last(delivered').dataArray.a[n]
                                    = ChatMessageOf(delivered[k]).from
                ELSE Rendered(users', messages', k) = << >>]_vars

(* the entry of bo was received under an empty roster, and the Users       *)
(* envelope naming bo that followed made it visible                        *)
C15_Witness ==
    /\ delivered = <<MessageFrame(JTStr(ChatText(Bo, Hi))),
                     UsersFrame(JArr(<<Al, Bo>>))>>
    /\ AbsentAtReceipt(1)
    /\ Len(View) = 1
    /\ View[1].from = Bo

-----------------------------------------------------------------------------
(* C16: a call of update that handles an inbound frame without panicking   *)
(* returns true exactly when the frame is a Users envelope or a Message    *)
(* envelope whose data decodes, and false exactly when it is a Register    *)
(* envelope; every submit returns false.  A Users envelope returns true    *)
(* also when the roster it sets equals the roster before.                  *)
C16_ReturnsTrueIffApplied ==
    [][/\ (delivered' # delivered /\ phase' = "active") =>
            /\ ret' = "true" <=> \/ KindIs(Last(delivered'), UsersKind)
                                 \/ WellFormedMessage(Last(delivered'))
            /\ ret' = "false" <=> KindIs(Last(delivered'), RegisterKind)
            /\ (KindIs(Last(delivered'), UsersKind) /\ users' = users)
                    => ret' = "true"
       /\ (phase = "active" /\ outcomes' # outcomes) => ret' = "false"]_vars

(* the same Users envelope was handled twice: the second call left the     *)
(* roster as it was and returned true                                      *)
C16_Witness ==
    /\ delivered = <<UsersFrame(JArr(<<Al>>)), UsersFrame(JArr(<<Al>>))>>
    /\ users = <<UserProfile(Al)>>
    /\ ret = "true"

-----------------------------------------------------------------------------
(* C17: handling a Users envelope that has no dataArray field raises no    *)
(* error and leaves the roster empty, whatever the roster was before.      *)
C17_AbsentListEmptiesRoster ==
    [][(/\ delivered' # delivered
        /\ KindIs(Last(delivered'), UsersKind)
        /\ Last(delivered').dataArray = JAbsent)
            => (phase' = "active" /\ users' = << >>)]_vars

(* a roster of two was replaced by the empty roster *)
C17_Witness ==
    /\ delivered = <<UsersFrame(JArr(<<Al, Bo>>)), UsersFrame(JAbsent)>>
    /\ users = << >>
    /\ phase = "active"

-----------------------------------------------------------------------------
(* C18: handling a Users envelope leaves the timeline as it was, handling  *)
(* a Message envelope leaves the roster as it was, and a submit leaves     *)
(* both as they were; so every timeline entry was carried by a Message     *)
(* envelope received inbound, and a submitted text is not echoed.          *)
C18_FrameConditions ==
    /\ [][/\ (delivered' # delivered /\ KindIs(Last(delivered'), UsersKind))
                => messages' = messages
          /\ (delivered' # delivered /\ KindIs(Last(delivered'), MessageKind))
                => users' = users
          /\ (phase = "active" /\ outcomes' # outcomes)
                => (users' = users /\ messages' = messages)]_vars
    /\ [](\A i \in DOMAIN messages :
            \E k \in DOMAIN delivered :
                /\ WellFormedMessage(delivered[k])
                /\ ChatMessageOf(delivered[k]) = messages[i])

(* the text hi was submitted and accepted after an entry of al was        *)
(* received: the timeline still holds that entry only                      *)
C18_Witness ==
    /\ Len(outcomes) = 2
    /\ outcomes[2].res = "ok"
    /\ outcomes[2].frame.data = JTStr(RawText(Hi))
    /\ messages = <<MessageData(Al, Hi)>>
    /\ Len(delivered) = 1

=============================================================================
